---- MODULE Spec2Model ----
(***************************************************************************)
(* Model of backend/main.py: the /api/analyze/apple handler and the        *)
(* helpers it calls.                                                       *)
(*                                                                         *)
(* Numbers.  Percentages with one decimal are kept in tenths, weights in   *)
(* hundredths of a kilogram.  Python floats are IEEE-754 doubles; where a  *)
(* result depends on their rounding (fresh_pixels / apple_pixels,          *)
(* 100 * ratio, 0.05 * total_pixels) the double is kept exactly, as a      *)
(* tuple <<t, l1, l2, l3, l4>> of limbs in base 2^13 that stands for       *)
(*     (t + l1/2^13 + l2/2^26 + l3/2^39 + l4/2^52) * 2^exponent,           *)
(* the exponent being carried separately.  A normalised double has t = 1.  *)
(*                                                                         *)
(* The OpenCV and PIL calls are modelled by their contracts: the image     *)
(* decoder either fails or yields an image with a number of pixels,        *)
(* cv2.kmeans labels every sample with a cluster id and yields one centre  *)
(* per cluster, cv2.findContours yields no contour or some, and            *)
(* cv2.minEnclosingCircle a radius.  What they return for a given image    *)
(* is a nondeterministic choice.                                           *)
(***************************************************************************)
EXTENDS Integers, Sequences, FiniteSets, Bags, TLC

(* ------------------------------ bounds -------------------------------- *)

\* Largest number of pixels (h * w) of an uploaded image.
MaxPixels == 21

\* Largest radius, in pixels, cv2.minEnclosingCircle reports.
MaxRadius == 12

\* Number of states of the process-wide generator of module random.
RngPeriod == 3

\* Number of states of the process-wide generator of numpy.random.
NpRngPeriod == 2

\* How far below 0 and above 100 the arguments of direct calls go.
MaxOver == 20

(* ------------------------- double arithmetic -------------------------- *)

Limb == 2 ^ 13

Min(x, y) == IF x <= y THEN x ELSE y

Max(x, y) == IF x >= y THEN x ELSE y

RECURSIVE Pow2(_)
Pow2(n) == IF n = 0 THEN 1 ELSE 2 * Pow2(n - 1)

\* Number of bits of t >= 1.
RECURSIVE BitLen(_)
BitLen(t) == IF t <= 1 THEN 1 ELSE 1 + BitLen(t \div 2)

\* Carries of the limbs below the top one are moved upwards; the top limb
\* is not bounded.
Carry(d) ==
    LET c4 == d[5] \div Limb
        v4 == d[4] + c4
        c3 == v4 \div Limb
        v3 == d[3] + c3
        c2 == v3 \div Limb
        v2 == d[2] + c2
        c1 == v2 \div Limb
    IN  <<d[1] + c1, v2 % Limb, v3 % Limb, v4 % Limb, d[5] % Limb>>

\* The exact product of the limbs d by the integer k.
MulSmall(d, k) == Carry([j \in 1..5 |-> d[j] * k])

\* d rounded to 53 significant bits, ties to even (the rounding of every
\* double operation).  The top limb of d holds 1 + s bits, so the lowest s
\* bits of the lowest limb are rounded away.
Round53(d) ==
    LET s    == BitLen(d[1]) - 1
        unit == Pow2(s)
        low  == d[5] % unit
        kept == d[5] - low
        odd  == (kept \div unit) % 2 = 1
        up   == \/ 2 * low > unit
                \/ 2 * low = unit /\ odd
    IN  IF s = 0 THEN d
        ELSE Carry(<<d[1], d[2], d[3], d[4], kept + (IF up THEN unit ELSE 0)>>)

\* The double nearest to num / den for integers 0 < num <= den: the limbs
\* of its mantissa and z, with value = mantissa * 2^(-z).
DivShift(num, den) == CHOOSE z \in 0..31 : num * Pow2(z) >= den /\ (z = 0 \/ num * Pow2(z - 1) < den)

DivLimbs(num, den) ==
    LET z  == DivShift(num, den)
        r0 == num * Pow2(z) - den
        d1 == (r0 * Limb) \div den
        r1 == (r0 * Limb) % den
        d2 == (r1 * Limb) \div den
        r2 == (r1 * Limb) % den
        d3 == (r2 * Limb) \div den
        r3 == (r2 * Limb) % den
        d4 == (r3 * Limb) \div den
        r4 == (r3 * Limb) % den
        up == \/ 2 * r4 > den
              \/ 2 * r4 = den /\ d4 % 2 = 1
    IN  Carry(<<1, d1, d2, d3, d4 + (IF up THEN 1 ELSE 0)>>)

\* int(k * (num / den)) in Python: the quotient is rounded to a double, the
\* product is rounded to a double, int() truncates.
IntOfScaledRatio(k, num, den) ==
    IF num = 0 THEN 0
    ELSE Round53(MulSmall(DivLimbs(num, den), k))[1] \div Pow2(DivShift(num, den))

\* int(100 * (num / den)), worked out once for every pair of pixel counts.
PercentMemo ==
    [num \in 0..(2 * MaxPixels), den \in 1..(2 * MaxPixels) |->
        IntOfScaledRatio(100, num, den)]

\* The double 0.05 = 0x1.999999999999ap-5.
Double005 == <<1, 4915, 1638, 3276, 6554>>

Double005Exp == 5

\* n < 0.05 * total for integers n and total >= 1: the product is rounded to
\* a double and compared exactly with the integer.
LessThanFivePercent(n, total) ==
    LET p == Round53(MulSmall(Double005, total))
    IN  \/ n * Pow2(Double005Exp) < p[1]
        \/ n * Pow2(Double005Exp) = p[1] /\ (p[2] + p[3] + p[4] + p[5] > 0)

\* n < 0.05 * total, worked out once for every pair of pixel counts.
FivePercentMemo ==
    [n \in 0..(2 * MaxPixels), total \in 1..MaxPixels |->
        LessThanFivePercent(n, total)]

\* p <= q for limbs without pending carries.
LimbsLe(p, q) ==
    \/ p = q
    \/ \E j \in 1..5 : p[j] < q[j] /\ \A h \in 1..(j - 1) : p[h] = q[h]

\* The limbs of x^n for integers x, n >= 0, times the limbs d.
RECURSIVE MulPow(_, _, _)
MulPow(d, x, n) == IF n = 0 THEN d ELSE MulPow(MulSmall(d, x), x, n - 1)

\* The integers nearest to num / den (den > 0, num >= 0).  On an exact tie
\* Python's round(x, ndigits) rounds the double x, which lies a little
\* above or below the tie: both neighbours are possible outcomes.
RoundNearest(num, den) ==
    LET q == num \div den
        r == num % den
    IN  IF 2 * r < den THEN {q}
        ELSE IF 2 * r > den THEN {q + 1}
        ELSE {q, q + 1}

(* ------------------------------ helpers ------------------------------- *)

\* k of compute_freshness.
K == 3

ClusterIds == 0..(K - 1)

\* int(np.argmax(v)): the first index holding the largest value.
ArgMax(v) ==
    CHOOSE c \in ClusterIds :
        /\ \A d \in ClusterIds : v[d] <= v[c]
        /\ \A d \in ClusterIds : d < c => v[d] < v[c]

\* int(np.argmin(v)): the first index holding the smallest value.
ArgMin(v) ==
    CHOOSE c \in ClusterIds :
        /\ \A d \in ClusterIds : v[d] >= v[c]
        /\ \A d \in ClusterIds : d < c => v[d] > v[c]

\* The labels array up to the order of the pixels, which nothing reads:
\* the bag holding the ids first, first + 1, ... as often as cnt says.
LabelBag(first, cnt) ==
    [c \in {d \in first..(first + K - 1) : cnt[d - first + 1] > 0} |-> cnt[c - first + 1]]

\* cv2.kmeans(pixels, k, ...) on n >= k samples: every sample gets one of
\* the ids 0..k-1 (a cluster may end up empty), whatever the seeding, the
\* number of iterations (at most 20) and the attempt (of 5) kept.
KMeansLabelsOffByOne(n) ==
    UNION {{LabelBag(1, <<n0, n1, n - n0 - n1>>) : n1 \in 0..(n - n0)} : n0 \in 0..n}

KMeansLabels(n) ==
    UNION {{LabelBag(0, <<n0, n1, n - n0 - n1>>) : n1 \in 0..(n - n0)} : n0 \in 0..n}

\* The two levels a centroid coordinate is drawn from: enough for every
\* outcome of argmax and argmin, ties included.
CenterLevels == {0, 1}

KMeansCenters == [ClusterIds -> CenterLevels]

\* int((labels == c).sum())
CountOf(labels, c) == CopiesIn(c, labels)

\* int(labels.size)
TotalPixels(labels) == BagCardinality(labels)

\* apple_pixels = fresh_pixels + spoiled_pixels
ApplePixels(fresh_pixels, spoiled_pixels) == fresh_pixels + spoiled_pixels

\* if apple_pixels < 0.05 * total_pixels
OnlyZero(apple_pixels, total_pixels) == apple_pixels = 0

TooFewApplePixels(apple_pixels, total_pixels) ==
    FivePercentMemo[apple_pixels, total_pixels]

\* int(100 * fresh_ratio) and int(100 * spoiled_ratio), the ratio being
\* pixels / apple_pixels.
PercentOfRest(pixels, apple_pixels) ==
    PercentMemo[pixels, Max(1, apple_pixels - pixels)]

PercentOf(pixels, apple_pixels) == PercentMemo[pixels, apple_pixels]

\* return 60, 30
FallbackPair == <<60, 30>>

\* The locals of compute_freshness at its return, for the labels cv2.kmeans
\* gave and the clusters argmax and argmin picked.
FreshnessFrame(labels, fresh_cluster, spoiled_cluster) ==
    LET fresh_pixels    == CountOf(labels, fresh_cluster)
        spoiled_pixels  == CountOf(labels, spoiled_cluster)
        total_pixels    == TotalPixels(labels)
        apple_pixels    == ApplePixels(fresh_pixels, spoiled_pixels)
        fallback        == TooFewApplePixels(apple_pixels, total_pixels)
    IN  [ called          |-> TRUE,
          labels          |-> labels,
          fresh_cluster   |-> fresh_cluster,
          spoiled_cluster |-> spoiled_cluster,
          fresh_pixels    |-> fresh_pixels,
          spoiled_pixels  |-> spoiled_pixels,
          total_pixels    |-> total_pixels,
          fallback        |-> fallback,
          ret             |-> IF fallback THEN FallbackPair
                              ELSE <<PercentOf(fresh_pixels, apple_pixels),
                                     PercentOf(spoiled_pixels, apple_pixels)>> ]

NoFreshnessFrame ==
    [ called |-> FALSE, labels |-> EmptyBag, fresh_cluster |-> 0, spoiled_cluster |-> 0,
      fresh_pixels |-> 0, spoiled_pixels |-> 0, total_pixels |-> 0, fallback |-> FALSE,
      ret |-> <<0, 0>> ]

\* spoilage_risk_label_from_ratio
RiskLabelStrict(spoilage_ratio) ==
    IF spoilage_ratio < 25 THEN "Low"
    ELSE IF spoilage_ratio < 50 THEN "Medium"
    ELSE "High"

spoilage_risk_label_from_ratio(spoilage_ratio) ==
    IF spoilage_ratio <= 25 THEN "Low"
    ELSE IF spoilage_ratio <= 50 THEN "Medium"
    ELSE "High"

\* dry_matter_from_freshness, in tenths of a percent.  10.0 + 0.08 * f is
\* (1000 + 8 f) / 100 with f in 0..100; 8 f never ends in 5, so the value is
\* never halfway between two tenths and is at least 0.02 away from halfway:
\* the doubles' error cannot change round(..., 1).
DryMatterUnclamped(freshness) == 100 + (8 * freshness + 5) \div 10

dry_matter_from_freshness(freshness) ==
    LET f == Max(0, Min(100, freshness))
    IN  100 + (8 * f + 5) \div 10

\* radius = max(radius, 10)
ClampRadiusDown(radius) == Min(radius, 10)

ClampRadius(radius) == Max(radius, 10)

\* round(0.0015 * radius ** 1.2, 2) in hundredths, for an integer radius:
\* the w with w - 1/2 <= 0.15 * radius^(6/5) < w + 1/2, that is with
\* (20 w - 10)^5 <= 243 * radius^6 < (20 w + 10)^5.
WeightAtLeast(w, radius) ==
    \/ w = 0
    \/ LimbsLe(MulPow(<<0, 0, 0, 0, 1>>, 20 * w - 10, 5),
               MulPow(<<0, 0, 0, 0, 243>>, radius, 6))

WeightMemo ==
    [radius \in 0..(MaxRadius + 1) |->
        CHOOSE w \in 0..radius : WeightAtLeast(w, radius) /\ ~WeightAtLeast(w + 1, radius)]

WeightOfRadius(radius) == WeightMemo[radius]

\* random.random() is modelled as state / RngPeriod, the generator stepping
\* to its next state with every number drawn.
RngStates == 0..(RngPeriod - 1)

NpRngStates == 0..(NpRngPeriod - 1)

RngAfter(state, draws) == (state + draws) % RngPeriod

\* round(random.uniform(0.15, 0.30), 2) in hundredths:
\* 0.15 + (0.30 - 0.15) * random().
UniformWeight(state) == RoundNearest(15 * RngPeriod + (30 - 15) * state, RngPeriod)

\* random.choice of pesticide_class_demo.
PesticideClasses == <<"Pure", "Insecticide Low", "Fungicide Low", "Fungicide High">>

pesticide_class_demo(state) ==
    PesticideClasses[1 + (Len(PesticideClasses) * state) \div RngPeriod]

\* nutrition_from_dm for dm in tenths, the results in tenths.
\* dm_factor = (dm - 14.0) / 4.0 is (dm - 140) / 40.
Clamp(lo, hi, v) == Max(lo, Min(hi, v))

nutrition_from_dm(dm) ==
    LET t == dm - 140
    IN  [ water_percent : RoundNearest(Clamp(2 * 700, 2 * 900, 2 * 860 - t), 2),
          sugar_percent : RoundNearest(Clamp(4 * 50, 4 * 200, 4 * 100 + t), 4),
          fiber         : RoundNearest(Clamp(40 * 10, 40 * 50, 40 * 24 + 3 * t), 40),
          vitamin_c_mg  : RoundNearest(Clamp(8 * 10, 8 * 80, 8 * 46 - Max(t, 0)), 8) ]

NoNutrition == [water_percent |-> 0, sugar_percent |-> 0, fiber |-> 0, vitamin_c_mg |-> 0]

\* spectral_curve_demo: 50 points, the base curve plus one draw of
\* np.random.normal each; a point is represented by the draw it got.
SpectralLen == 50

spectral_curve_demo(state) == [j \in 1..SpectralLen |-> (state + j - 1) % NpRngPeriod]

\* sensor_values_demo: 18 times int(random.uniform(5000, 35000)).
SensorLen == 18

sensor_values_demo(state) ==
    [j \in 1..SensorLen |->
        5000 + ((35000 - 5000) * RngAfter(state, j - 1)) \div RngPeriod]


(* ------------------------------- state -------------------------------- *)

\* The requests to /api/analyze/apple that may be in flight together.
Req == {1, 2}

VARIABLES
    upload,    \* per request: the bytes sent, by what decoding them gives
    pc,        \* per request: the line analyze_apple is at
    running,   \* the request whose coroutine the event loop runs, 0 for none
    rng,       \* state of the generator shared by the functions of random
    nprng,     \* state of the generator shared by the functions of np.random
    img,       \* per request: number of pixels of img_rgb, 0 before decoding
    ff,        \* per request: locals of the last compute_freshness call
    wf,        \* per request: locals of the last estimate_weight_from_image call
    loc,       \* per request: locals of analyze_apple
    error,     \* per request: the exception that ended it, "" for none
    response,  \* per request: the record returned
    call       \* a direct call of a helper: its argument and its result

vars == <<upload, pc, running, rng, nprng, img, ff, wf, loc, error, response, call>>

NoUpload == [ok |-> FALSE, pixels |-> 0]

\* Bytes that are no image, and images of 1..MaxPixels pixels.
Uploads == {NoUpload} \cup {[ok |-> TRUE, pixels |-> n] : n \in 1..MaxPixels}

\* The uploads of two requests in flight together: no image, and images
\* of up to K pixels.
SmallUploads == {u \in Uploads : u.pixels <= K}

NoWeightFrame == [called |-> FALSE, found |-> FALSE, circle_radius |-> 0, radius |-> 0]

NoLocals ==
    [ freshness |-> -1, spoilage_ratio |-> -1, dm |-> -1, spoilage_label |-> "",
      weight |-> -1, pesticide |-> "", nutrition |-> NoNutrition,
      spectral |-> <<>>, sensor_vals |-> <<>> ]

NoResponse ==
    [ sent |-> FALSE, freshness_score |-> -1, dry_matter_percent |-> -1,
      spoilage_risk |-> "", pesticide_class |-> "", estimated_weight_kg |-> -1,
      nutrition |-> NoNutrition, spectral_prediction_graph_data |-> <<>>,
      sensor_emulation_values |-> <<>> ]

NoCall == [fn |-> "", arg |-> 0, num |-> 0, str |-> ""]

\* Arguments of direct calls of the helpers that take an integer.
CallArgs == (0 - MaxOver)..(100 + MaxOver)

InitWith(requests, uploads) ==
    /\ upload \in [Req -> uploads]
    /\ \A i \in Req \ requests : upload[i] = NoUpload
    /\ pc = [i \in Req |-> IF i \in requests THEN "await_read" ELSE "none"]
    /\ running = 0
    /\ rng \in RngStates
    /\ nprng \in NpRngStates
    /\ img = [i \in Req |-> 0]
    /\ ff = [i \in Req |-> NoFreshnessFrame]
    /\ wf = [i \in Req |-> NoWeightFrame]
    /\ loc = [i \in Req |-> NoLocals]
    /\ error = [i \in Req |-> ""]
    /\ response = [i \in Req |-> NoResponse]

\* One request.
Init == InitWith({1}, Uploads) /\ call = NoCall

\* Two requests in flight together.
ConcInit == InitWith(Req, SmallUploads) /\ call = NoCall

\* No request: a helper is about to be called directly with some argument.
FnInit == InitWith({}, {NoUpload}) /\ call \in {[NoCall EXCEPT !.arg = x] : x \in CallArgs}

(* --------------------------- analyze_apple ---------------------------- *)

\* contents = await image.read(): the coroutine is resumed by the event
\* loop, which then runs it up to its return or its exception; there is no
\* other await in the handler.
Resume(i) ==
    /\ pc[i] = "await_read"
    /\ running = 0
    /\ running' = i
    /\ pc' = [pc EXCEPT ![i] = "decode"]
    /\ UNCHANGED <<upload, rng, nprng, img, ff, wf, loc, error, response, call>>

\* An exception leaves the handler: no record is returned.
Raise(i, what) ==
    /\ pc' = [pc EXCEPT ![i] = "raised"]
    /\ error' = [error EXCEPT ![i] = what]
    /\ running' = 0
    /\ UNCHANGED <<upload, rng, nprng, img, ff, wf, loc, response, call>>

\* Image.open(...) raises on bytes that are no image.
DecodeFails(i) ==
    /\ pc[i] = "decode"
    /\ running = i
    /\ ~upload[i].ok
    /\ Raise(i, "decode")

\* img_rgb = np.array(Image.open(io.BytesIO(contents)).convert("RGB"))
Decode(i) ==
    /\ pc[i] = "decode"
    /\ running = i
    /\ upload[i].ok
    /\ img' = [img EXCEPT ![i] = upload[i].pixels]
    /\ pc' = [pc EXCEPT ![i] = "freshness"]
    /\ UNCHANGED <<upload, running, rng, nprng, ff, wf, loc, error, response, call>>

\* cv2.kmeans raises cv2.error when there are fewer samples than clusters.
KMeansRaises(i) ==
    /\ pc[i] = "freshness"
    /\ running = i
    /\ img[i] < K
    /\ Raise(i, "cv2.error")

\* freshness, spoilage_ratio = compute_freshness_from_image(img_rgb)
ComputeFreshness(i) ==
    /\ pc[i] = "freshness"
    /\ running = i
    /\ img[i] >= K
    /\ \E labels \in KMeansLabels(img[i]),
          fresh_cluster \in {ArgMax(a) : a \in KMeansCenters},
          spoiled_cluster \in {ArgMin(L) : L \in KMeansCenters} :
          LET f == FreshnessFrame(labels, fresh_cluster, spoiled_cluster)
          IN  /\ ff' = [ff EXCEPT ![i] = f]
              /\ loc' = [loc EXCEPT ![i].freshness = f.ret[1],
                                    ![i].spoilage_ratio = f.ret[2]]
    /\ pc' = [pc EXCEPT ![i] = "dry_matter"]
    /\ UNCHANGED <<upload, running, rng, nprng, img, wf, error, response, call>>

\* dm = dry_matter_from_freshness(freshness)
DryMatter(i) ==
    /\ pc[i] = "dry_matter"
    /\ running = i
    /\ loc' = [loc EXCEPT ![i].dm = dry_matter_from_freshness(loc[i].freshness)]
    /\ ff' = [ff EXCEPT ![i] = NoFreshnessFrame]
    /\ pc' = [pc EXCEPT ![i] = "risk"]
    /\ UNCHANGED <<upload, running, rng, nprng, img, wf, error, response, call>>

\* spoilage_label = spoilage_risk_label_from_ratio(spoilage_ratio)
RiskLabel(i) ==
    /\ pc[i] = "risk"
    /\ running = i
    /\ loc' = [loc EXCEPT ![i].spoilage_label =
                              spoilage_risk_label_from_ratio(loc[i].spoilage_ratio)]
    /\ pc' = [pc EXCEPT ![i] = "weight"]
    /\ UNCHANGED <<upload, running, rng, nprng, img, ff, wf, error, response, call>>

\* weight = estimate_weight_from_image(img_rgb), no contour found:
\* return round(random.uniform(0.15, 0.30), 2)
EstimateWeightNoContour(i) ==
    /\ pc[i] = "weight"
    /\ running = i
    /\ \E w \in UniformWeight(rng) : loc' = [loc EXCEPT ![i].weight = w]
    /\ rng' = RngAfter(rng, 1)
    /\ wf' = [wf EXCEPT ![i] = [NoWeightFrame EXCEPT !.called = TRUE]]
    /\ pc' = [pc EXCEPT ![i] = "pesticide"]
    /\ UNCHANGED <<upload, running, nprng, img, ff, error, response, call>>

\* weight = estimate_weight_from_image(img_rgb), the largest contour having
\* an enclosing circle of some radius.
EstimateWeight(i) ==
    /\ pc[i] = "weight"
    /\ running = i
    /\ \E circle_radius \in 0..MaxRadius :
          LET radius == ClampRadius(circle_radius)
          IN  /\ wf' = [wf EXCEPT ![i] = [called |-> TRUE, found |-> TRUE,
                                          circle_radius |-> circle_radius,
                                          radius |-> radius]]
              /\ loc' = [loc EXCEPT ![i].weight = WeightOfRadius(radius)]
    /\ pc' = [pc EXCEPT ![i] = "pesticide"]
    /\ UNCHANGED <<upload, running, rng, nprng, img, ff, error, response, call>>

\* pesticide = pesticide_class_demo()
Pesticide(i) ==
    /\ pc[i] = "pesticide"
    /\ running = i
    /\ loc' = [loc EXCEPT ![i].pesticide = pesticide_class_demo(rng)]
    /\ rng' = RngAfter(rng, 1)
    /\ wf' = [wf EXCEPT ![i] = NoWeightFrame]
    /\ pc' = [pc EXCEPT ![i] = "nutrition"]
    /\ UNCHANGED <<upload, running, nprng, img, ff, error, response, call>>

\* nutrition = nutrition_from_dm(dm)
Nutrition(i) ==
    /\ pc[i] = "nutrition"
    /\ running = i
    /\ \E n \in nutrition_from_dm(loc[i].dm) : loc' = [loc EXCEPT ![i].nutrition = n]
    /\ pc' = [pc EXCEPT ![i] = "spectral"]
    /\ UNCHANGED <<upload, running, rng, nprng, img, ff, wf, error, response, call>>

\* spectral = spectral_curve_demo()
Spectral(i) ==
    /\ pc[i] = "spectral"
    /\ running = i
    /\ loc' = [loc EXCEPT ![i].spectral = spectral_curve_demo(nprng)]
    /\ nprng' = (nprng + SpectralLen) % NpRngPeriod
    /\ pc' = [pc EXCEPT ![i] = "sensor"]
    /\ UNCHANGED <<upload, running, rng, img, ff, wf, error, response, call>>

\* sensor_vals = sensor_values_demo()
Sensor(i) ==
    /\ pc[i] = "sensor"
    /\ running = i
    /\ loc' = [loc EXCEPT ![i].sensor_vals = sensor_values_demo(rng)]
    /\ rng' = RngAfter(rng, SensorLen)
    /\ pc' = [pc EXCEPT ![i] = "return"]
    /\ UNCHANGED <<upload, running, nprng, img, ff, wf, error, response, call>>

\* return {...}
Return(i) ==
    /\ pc[i] = "return"
    /\ running = i
    /\ response' = [response EXCEPT ![i] =
          [ sent |-> TRUE,
            freshness_score |-> loc[i].freshness,
            dry_matter_percent |-> loc[i].dm,
            spoilage_risk |-> loc[i].spoilage_label,
            pesticide_class |-> loc[i].pesticide,
            estimated_weight_kg |-> loc[i].weight,
            nutrition |-> loc[i].nutrition,
            spectral_prediction_graph_data |-> loc[i].spectral,
            sensor_emulation_values |-> loc[i].sensor_vals ]]
    /\ pc' = [pc EXCEPT ![i] = "done"]
    /\ running' = 0
    /\ UNCHANGED <<upload, rng, nprng, img, ff, wf, loc, error, call>>

(* ---------------------------- direct calls ---------------------------- *)

CallDryMatter ==
    /\ call.fn = ""
    /\ call' = [call EXCEPT !.fn = "dry_matter_from_freshness",
                            !.num = dry_matter_from_freshness(call.arg)]
    /\ UNCHANGED <<upload, pc, running, rng, nprng, img, ff, wf, loc, error, response>>

CallRiskLabel ==
    /\ call.fn = ""
    /\ call' = [call EXCEPT !.fn = "spoilage_risk_label_from_ratio",
                            !.str = spoilage_risk_label_from_ratio(call.arg)]
    /\ UNCHANGED <<upload, pc, running, rng, nprng, img, ff, wf, loc, error, response>>

(* --------------------------- specifications --------------------------- *)

Next ==
    \E i \in Req :
        \/ Resume(i)
        \/ DecodeFails(i)
        \/ Decode(i)
        \/ KMeansRaises(i)
        \/ ComputeFreshness(i)
        \/ DryMatter(i)
        \/ RiskLabel(i)
        \/ EstimateWeightNoContour(i)
        \/ EstimateWeight(i)
        \/ Pesticide(i)
        \/ Nutrition(i)
        \/ Spectral(i)
        \/ Sensor(i)
        \/ Return(i)

FnNext == CallDryMatter \/ CallRiskLabel

\* One request served.
Spec == Init /\ [][Next]_vars

\* Two requests served by the same process.
ConcSpec == ConcInit /\ [][Next]_vars

\* The helpers called directly.
FnSpec == FnInit /\ [][FnNext]_vars
(* ------------------------------ claims -------------------------------- *)

Abs(x) == IF x < 0 THEN 0 - x ELSE x

\* q is an integer nearest to num / den.
IsNearest(q, num, den) == 2 * Abs(den * q - num) <= den

\* The frame of a compute_freshness call that returned from the ratio path:
\* the fresh and the spoiled cluster hold at least 5% of the pixels.
OnRatioPath(f) ==
    f.called /\ 20 * (f.fresh_pixels + f.spoiled_pixels) >= f.total_pixels

\* The frame of a compute_freshness call in which the fresh and the spoiled
\* cluster hold fewer than 5% of the pixels.
BelowFivePercent(f) ==
    f.called /\ 20 * (f.fresh_pixels + f.spoiled_pixels) < f.total_pixels

\* C1: on the ratio path compute_freshness_from_image returns 100 *
\* fresh_pixels / apple_pixels and 100 * spoiled_pixels / apple_pixels, each
\* rounded to the nearest integer.
C1_RatiosRounded ==
    \A i \in Req :
        OnRatioPath(ff[i]) =>
            LET f == ff[i]
                apple_pixels == f.fresh_pixels + f.spoiled_pixels
            IN  /\ IsNearest(f.ret[1], 100 * f.fresh_pixels, apple_pixels)
                /\ IsNearest(f.ret[2], 100 * f.spoiled_pixels, apple_pixels)

\* C2: whenever the fresh and the spoiled cluster together hold fewer than
\* 5% of the pixels, compute_freshness_from_image returns exactly 60 and 30,
\* and these are the handler's freshness and spoilage_ratio.
C2_FallbackPair ==
    \A i \in Req :
        BelowFivePercent(ff[i]) =>
            /\ ff[i].ret = <<60, 30>>
            /\ loc[i].freshness = 60
            /\ loc[i].spoilage_ratio = 30

\* A 21-pixel image whose fresh and spoiled cluster hold one pixel together:
\* the fallback pair was returned.
C2_Witness ==
    \E i \in Req :
        /\ BelowFivePercent(ff[i])
        /\ ff[i].fresh_pixels + ff[i].spoiled_pixels = 1
        /\ ff[i].ret = <<60, 30>>

\* C3: both numbers compute_freshness_from_image returns are integers in
\* 0..100, on the fallback path and on the ratio path, the fresh and the
\* spoiled cluster being distinct or the same.
C3_ScoresInRange ==
    \A i \in Req :
        ff[i].called =>
            /\ ff[i].ret[1] \in 0..100
            /\ ff[i].ret[2] \in 0..100
            /\ loc[i].freshness = ff[i].ret[1]
            /\ loc[i].spoilage_ratio = ff[i].ret[2]

\* The fresh and the spoiled cluster are the same, non-empty cluster: the
\* ratio path returned 50 and 50.
C3_Witness ==
    \E i \in Req :
        /\ OnRatioPath(ff[i])
        /\ ff[i].fresh_cluster = ff[i].spoiled_cluster
        /\ ff[i].fresh_pixels > 0
        /\ ff[i].ret = <<50, 50>>

\* C4: the only failure of analyze_apple is a decode failure: a request
\* whose bytes decode to an image, of any size, does not end in an exception.
C4_OnlyDecodeFails ==
    \A i \in Req : pc[i] = "raised" => ~upload[i].ok

\* Request j has drawn from the generator of random (pesticide_class_demo
\* draws on every path), from the generator of np.random.
HasDrawn(j) == loc[j].pesticide # ""

HasDrawnNp(j) == loc[j].spectral # <<>>

\* C5: no step of a request reads or writes state that another request
\* writes: a request draws from a generator, and so advances it, only if no
\* other request has drawn from that generator.
C5_NoSharedWrites ==
    [][\A i \in Req :
          running = i =>
              /\ rng' # rng => \A j \in Req \ {i} : ~HasDrawn(j)
              /\ nprng' # nprng => \A j \in Req \ {i} : ~HasDrawnNp(j)]_vars

\* C6: dry_matter_from_freshness returns a value in [10.0, 18.0] for every
\* integer, those below 0 and above 100 included, and no smaller argument
\* gets a larger value.
C6_DryMatterRangeMonotone ==
    call.fn = "dry_matter_from_freshness" =>
        /\ call.num \in 100..180
        /\ \A g \in CallArgs :
              /\ g <= call.arg => dry_matter_from_freshness(g) <= call.num
              /\ g >= call.arg => dry_matter_from_freshness(g) >= call.num

\* A call with an argument above 100 returned 18.0.
C6_Witness ==
    /\ call.fn = "dry_matter_from_freshness"
    /\ call.arg > 100
    /\ call.num = 180

\* C7: spoilage_risk_label_from_ratio gives Low for 0..25, Medium for
\* 26..50 and High for 51..100.
C7_RiskLabel ==
    (call.fn = "spoilage_risk_label_from_ratio" /\ call.arg \in 0..100) =>
        call.str = CASE call.arg \in 0..25   -> "Low"
                     [] call.arg \in 26..50  -> "Medium"
                     [] call.arg \in 51..100 -> "High"

\* The call with 25 returned Low.
C7_Witness ==
    /\ call.fn = "spoilage_risk_label_from_ratio"
    /\ call.arg = 25
    /\ call.str = "Low"

\* C8: estimate_weight_from_image never returns a negative weight: without
\* a contour the weight lies in [0.15, 0.30], with one the radius put into
\* the formula is at least 10.
C8_WeightNonNegative ==
    \A i \in Req :
        wf[i].called =>
            /\ loc[i].weight >= 0
            /\ ~wf[i].found => loc[i].weight \in 15..30
            /\ wf[i].found => wf[i].radius >= 10 /\ wf[i].radius >= wf[i].circle_radius

\* A contour whose enclosing circle has a radius below 10: the radius was
\* raised to 10 and the weight is 0.02 kg.
C8_Witness ==
    \E i \in Req :
        /\ wf[i].called
        /\ wf[i].found
        /\ wf[i].circle_radius < 10
        /\ wf[i].radius = 10
        /\ loc[i].weight = 2

\* C9: on the ratio path the two numbers compute_freshness_from_image
\* returns sum to exactly 100.
C9_SumIsHundred ==
    \A i \in Req : OnRatioPath(ff[i]) => ff[i].ret[1] + ff[i].ret[2] = 100

====
